---- MODULE Spec2Model ----
(***************************************************************************)
(* A model of typedoc.plugin.mjs, the TypeDoc plugin that renders the      *)
(* schema reference page.  Strings are sequences of characters, each       *)
(* character a one-character string; NBSP stands for U+00A0, LF for a line  *)
(* feed and BQ for a backquote.                                            *)
(***************************************************************************)
EXTENDS Integers, Sequences, FiniteSets, TLC

VARIABLES
  name,      \* renderReflection: reflection.getFriendlyFullName()
  pieces,    \* renderReflection: the elements the host rendered for it
  rpc,       \* renderReflection: "start", "done", "again"
  content,   \* renderReflection: the local content after the rewrites
  fragment,  \* renderReflection: the returned string
  second,    \* the rewrites applied to content once more: each step's result
  tree,      \* the reflections the host hands over
  call,      \* the last call on the reflections, with what it returned
  events,    \* renderPageEvents: the page events it is given
  ppc,       \* renderPageEvents: "start", "done"
  declarationEvents,  \* renderPageEvents: the events filtered and sorted
  outputsByCategory,  \* renderPageEvents: the Map, its entries as inserted
  sections,  \* renderPageEvents: the buckets flattened in key order
  rendered,  \* renderPageEvents: the returned string
  app,       \* the application: its outputs, its renderer's router and theme
  project,   \* the pages the router plans for the project
  hpc,       \* the output handler: where it stands
  queue,     \* process.stdout: the chunks written and not yet flushed
  out,       \* process.stdout: the chunks flushed, in their order
  resolved   \* the promise of line 21 is resolved

renderVars == <<name, pieces, rpc, content, fragment, second>>
treeVars == <<tree, call>>
pageVars == <<events, ppc, declarationEvents, outputsByCategory, sections,
              rendered>>
outputVars == <<app, project, hpc, queue, out, resolved>>
vars == <<renderVars, treeVars, pageVars, outputVars>>

NBSP == "NBSP"
LF == "LF"
BQ == "BQ"

(***************************************************************************)
(* String primitives of the JavaScript runtime.                            *)
(***************************************************************************)

\* pat occurs in s at index i.
IsAt(s, i, pat) ==
  /\ i + Len(pat) - 1 <= Len(s)
  /\ \A k \in 1..Len(pat) : s[i + k - 1] = pat[k]

\* String.prototype.includes
Includes(s, pat) == \E i \in 1..Len(s) : IsAt(s, i, pat)

\* The number of places of s where pat occurs.
Count(s, pat) == Cardinality({i \in 1..Len(s) : IsAt(s, i, pat)})

RECURSIVE Concat(_)
\* The concatenation of a sequence of strings.
Concat(ss) == IF ss = <<>> THEN <<>> ELSE Head(ss) \o Concat(Tail(ss))

\* The least index of a set of indexes that is not empty: where the search
\* of a pattern, which goes from left to right, finds its next match.
Least(M) == CHOOSE j \in M : \A k \in M : j <= k

\* s from index i on.
From(s, i) == SubSeq(s, i, Len(s))

RECURSIVE ReplaceAllFrom(_, _, _, _)
ReplaceAllFrom(s, i, pat, rep) ==
  LET M == {j \in i..Len(s) : IsAt(s, j, pat)}
  IN IF M = {} THEN From(s, i)
     ELSE LET j == Least(M) IN
            SubSeq(s, i, j - 1) \o rep \o ReplaceAllFrom(s, j + Len(pat), pat, rep)

\* String.prototype.replaceAll with a string pattern: every match, leftmost
\* first, matches not overlapping.
replaceAll(s, pat, rep) == ReplaceAllFrom(s, 1, pat, rep)

\* String.prototype.replace with a string pattern: the first match only.
replace(s, pat, rep) ==
  IF Includes(s, pat)
  THEN LET i == CHOOSE j \in 1..Len(s) :
                  IsAt(s, j, pat) /\ \A k \in 1..(j - 1) : ~IsAt(s, k, pat)
       IN SubSeq(s, 1, i - 1) \o rep \o SubSeq(s, i + Len(pat), Len(s))
  ELSE s

\* The printable ASCII characters, from the space (code 32) to "~" (126).
Ascii ==
  <<" ", "!", "\"", "#", "$", "%", "&", "'", "(", ")", "*", "+", ",", "-",
    ".", "/", "0", "1", "2", "3", "4", "5", "6", "7", "8", "9", ":", ";",
    "<", "=", ">", "?", "@", "A", "B", "C", "D", "E", "F", "G", "H", "I",
    "J", "K", "L", "M", "N", "O", "P", "Q", "R", "S", "T", "U", "V", "W",
    "X", "Y", "Z", "[", "\\", "]", "^", "_", BQ, "a", "b", "c", "d", "e",
    "f", "g", "h", "i", "j", "k", "l", "m", "n", "o", "p", "q", "r", "s",
    "t", "u", "v", "w", "x", "y", "z", "{", "|", "}", "~">>

\* The UTF-16 code unit of a character.
CodeUnit(c) ==
  IF c = LF THEN 10
  ELSE IF c = NBSP THEN 160
  ELSE 31 + (CHOOSE i \in 1..Len(Ascii) : Ascii[i] = c)

\* /^[a-z]/
StartsLowerCase(s) ==
  Len(s) > 0 /\ CodeUnit(s[1]) >= CodeUnit("a") /\ CodeUnit(s[1]) <= CodeUnit("z")

\* String.prototype.toLowerCase, on ASCII.
LowerChar(c) ==
  IF c \notin {LF, NBSP} /\ CodeUnit(c) >= CodeUnit("A") /\ CodeUnit(c) <= CodeUnit("Z")
  THEN Ascii[CodeUnit(c) + 1]
  ELSE c
toLowerCase(s) == [i \in 1..Len(s) |-> LowerChar(s[i])]

\* The first index where x and y differ, or 0: one past the shorter when it
\* is a prefix of the other.
FirstDifference(x, y) ==
  LET D == {i \in 1..Len(x) : i > Len(y) \/ x[i] # y[i]}
             \cup (IF Len(y) > Len(x) THEN {Len(x) + 1} ELSE {})
  IN IF D = {} THEN 0 ELSE CHOOSE i \in D : \A j \in D : i <= j

\* The order of Array.prototype.sort without a comparator: by UTF-16 code
\* units, a prefix before what it is a prefix of.
CodeUnitLess(x, y) ==
  LET i == FirstDifference(x, y)
  IN /\ i # 0
     /\ \/ i > Len(x)
        \/ i <= Len(y) /\ CodeUnit(x[i]) < CodeUnit(y[i])

\* String.prototype.localeCompare on ASCII letters: the letters decide,
\* their case apart; between strings that differ in case only, the first
\* difference decides, lower case before upper case.
localeCompare(x, y) ==
  LET lx == toLowerCase(x)
      ly == toLowerCase(y)
  IN IF CodeUnitLess(lx, ly) THEN -1
     ELSE IF CodeUnitLess(ly, lx) THEN 1
     ELSE LET i == FirstDifference(x, y)
          IN IF i = 0 THEN 0 ELSE IF x[i] = lx[i] THEN -1 ELSE 1

\* Array.prototype.sort, which is stable: an element comes behind those it
\* is to come after and behind the earlier ones it ties with.  After(a, b)
\* says that a is to come after b.
Sort(seq, After(_, _)) ==
  LET Rank(i) ==
        1 + Cardinality({j \in 1..Len(seq) :
              \/ After(seq[i], seq[j])
              \/ j < i /\ ~After(seq[j], seq[i])})
  IN [k \in 1..Len(seq) |-> seq[CHOOSE i \in 1..Len(seq) : Rank(i) = k]]

\* Array.prototype.join
RECURSIVE Join(_, _)
Join(ss, sep) ==
  IF ss = <<>> THEN <<>>
  ELSE IF Len(ss) = 1 THEN ss[1]
  ELSE ss[1] \o sep \o Join(Tail(ss), sep)

(***************************************************************************)
(* Reflections.  A tree t has the nodes 1..t.n, node 1 its root.  A node m *)
(* other than the root hangs below t.parent[m], either among the parent's  *)
(* children (t.via[m] = "children") or among the children of the           *)
(* declaration of the parent's type (t.via[m] = "type"); that type is an   *)
(* inline structural type (t.typeKind = "reflection", a ReflectionType) or *)
(* a reference to a declaration made elsewhere ("reference").              *)
(***************************************************************************)

NodesOf(t) == 1..t.n

\* The nodes of S in ascending order.
RECURSIVE Ascending(_)
Ascending(S) ==
  IF S = {} THEN <<>>
  ELSE LET m == CHOOSE x \in S : \A y \in S : x <= y
       IN <<m>> \o Ascending(S \ {m})

\* reflection.children
Children(t, n) ==
  Ascending({m \in NodesOf(t) \ {1} : t.parent[m] = n /\ t.via[m] = "children"})

\* member.type.declaration.children
TypeChildren(t, n) ==
  Ascending({m \in NodesOf(t) \ {1} : t.parent[m] = n /\ t.via[m] = "type"})

\* Array.prototype.some
Some(seq, P(_)) == \E i \in 1..Len(seq) : P(seq[i])

\* hasComment without the recursion: only the direct comments of the
\* type's children count.
hasCommentShallow(t, n) ==
  \/ t.comment[n]
  \/ /\ t.typeKind[n] = "reflection"
     /\ \E i \in 1..Len(TypeChildren(t, n)) : t.comment[TypeChildren(t, n)[i]]

RECURSIVE hasComment(_, _)
\* hasComment(member), lines 57-62; t.comment[n] is member.hasComment().
hasComment(t, n) ==
  \/ t.comment[n]
  \/ /\ t.typeKind[n] = "reflection"
     /\ LET HasIt(child) == hasComment(t, child)
        IN Some(TypeChildren(t, n), HasIt)

\* Array.prototype.filter
Filter(seq, P(_)) == SelectSeq(seq, P)

\* The members filtered by member.hasComment(), the host's method.
MembersWithDirectComment(t, n) ==
  LET HasIt(child) == t.comment[child]
  IN Filter(Children(t, n), HasIt)

\* renderReflection, line 145: the members handed to context.member.
Members(t, n) ==
  LET HasIt(child) == hasComment(t, child)
  IN Filter(Children(t, n), HasIt)

\* replace(/[.\/#]/, "-"), without the g flag: the first match only.
ReplaceFirstSeparator(s) ==
  LET M == {i \in 1..Len(s) : s[i] \in {".", "/", "#"}}
  IN IF M = {} THEN s
     ELSE [i \in 1..Len(s) |->
             IF i = (CHOOSE j \in M : \A k \in M : j <= k) THEN "-" ELSE s[i]]

RECURSIVE SeparatorsFrom(_, _)
SeparatorsFrom(s, i) ==
  LET M == {j \in i..Len(s) : s[j] \in {".", "/", "#"}}
  IN IF M = {} THEN From(s, i)
     ELSE LET j == Least(M) IN
            SubSeq(s, i, j - 1) \o <<"-">> \o SeparatorsFrom(s, j + 1)

\* replaceAll(/[./#]/g, "-")
ReplaceSeparators(s) == SeparatorsFrom(s, 1)

DotHtml == <<".", "h", "t", "m", "l">>

\* The kinds of a DeclarationReflection; a ProjectReflection is none.
DeclarationKinds == {"Interface", "Property", "Method"}

\* SchemaReferenceRouter.getAnchor(target), lines 40-50; url is what
\* super.getFullUrl(target) returns.
getAnchor(t, n, url) ==
  IF /\ t.kind[n] \in DeclarationKinds
     /\ t.kind[n] = "Property"
     /\ ~hasComment(t, n)
  THEN <<>>
  ELSE toLowerCase(ReplaceSeparators(replace(url, DotHtml, <<>>)))

\* SchemaReferenceRouter.getFullUrl(target), lines 32-34.
getFullUrl(t, n, url) == <<"#">> \o getAnchor(t, n, url)


(***************************************************************************)

HeadingLevels == {"1", "2", "3", "4", "5", "6"}

DivOpen == <<"<", "d", "i", "v", " ", "d", "a", "t", "a", "-", "t", "y", "p",
             "e", "d", "o", "c", "-", "h", "=", "\"">>
DivClose == <<"<", "/", "d", "i", "v", ">">>

\* /<h([1-6])/ matches s at i.
IsHeadingOpenAt(s, i) ==
  /\ IsAt(s, i, <<"<", "h">>)
  /\ i + 2 <= Len(s)
  /\ s[i + 2] \in HeadingLevels

RECURSIVE HeadingOpenFrom(_, _)
HeadingOpenFrom(s, i) ==
  LET M == {j \in i..Len(s) : IsHeadingOpenAt(s, j)}
  IN IF M = {} THEN From(s, i)
     ELSE LET j == Least(M) IN
            SubSeq(s, i, j - 1) \o DivOpen \o <<s[j + 2], "\"">>
              \o HeadingOpenFrom(s, j + 3)

\* replaceAll(/<h([1-6])/g, <div data-typedoc-h="$1")
ReplaceHeadingOpen(s) == HeadingOpenFrom(s, 1)

RECURSIVE HeadingCloseBelow6From(_, _)
HeadingCloseBelow6From(s, i) ==
  LET M == {j \in i..Len(s) : /\ IsAt(s, j, <<"<", "/", "h">>)
                              /\ j + 4 <= Len(s)
                              /\ s[j + 3] \in {"1", "2", "3", "4", "5"}
                              /\ s[j + 4] = ">"}
  IN IF M = {} THEN From(s, i)
     ELSE LET j == Least(M) IN
            SubSeq(s, i, j - 1) \o DivClose \o HeadingCloseBelow6From(s, j + 5)

\* replaceAll(/<\/h[1-5]>/g, </div>): the levels one short.
ReplaceHeadingCloseBelow6(s) == HeadingCloseBelow6From(s, 1)

\* /<\/h[1-6]>/ matches s at i.
IsHeadingCloseAt(s, i) ==
  /\ IsAt(s, i, <<"<", "/", "h">>)
  /\ i + 4 <= Len(s)
  /\ s[i + 3] \in HeadingLevels
  /\ s[i + 4] = ">"

RECURSIVE HeadingCloseFrom(_, _)
HeadingCloseFrom(s, i) ==
  LET M == {j \in i..Len(s) : IsHeadingCloseAt(s, j)}
  IN IF M = {} THEN From(s, i)
     ELSE LET j == Least(M) IN
            SubSeq(s, i, j - 1) \o DivClose \o HeadingCloseFrom(s, j + 5)

\* replaceAll(/<\/h[1-6]>/g, </div>)
ReplaceHeadingClose(s) == HeadingCloseFrom(s, 1)

\* Convert <hN> elements to <div>.
ConvertHeadings(s) == ReplaceHeadingClose(ReplaceHeadingOpen(s))

\* Reduce code block indent from 4 spaces to 2 spaces.
ReduceIndent(s) == replaceAll(s, <<NBSP, NBSP>>, <<NBSP>>)

NbspEntity == <<"&", "n", "b", "s", "p", ";">>

\* replaceAll(" ", "&nbsp;")
EncodeNbsp(s) == replaceAll(s, <<NBSP>>, NbspEntity)

\* The last index of the run of line feeds that starts at i: \n+ is greedy.
RunEnd(s, i) ==
  Least({j \in i..Len(s) : j = Len(s) \/ s[j + 1] # LF})

\* /\n+</ matches s at i.
IsNewlinesTagAt(s, i) ==
  /\ i <= Len(s)
  /\ s[i] = LF
  /\ RunEnd(s, i) < Len(s)
  /\ s[RunEnd(s, i) + 1] = "<"

RECURSIVE NewlinesFrom(_, _)
NewlinesFrom(s, i) ==
  LET M == {j \in i..Len(s) : IsNewlinesTagAt(s, j)}
  IN IF M = {} THEN From(s, i)
     ELSE LET j == Least(M) IN
            SubSeq(s, i, j - 1) \o <<" ", "<">>
              \o NewlinesFrom(s, RunEnd(s, j) + 2)

\* replaceAll(/\n+</g, " <")
CollapseNewlines(s) == NewlinesFrom(s, 1)

\* The escapes without the one of "{".
EscapeMarkdownWithoutBrace(s) ==
  replaceAll(
    replaceAll(s, <<"[">>, <<"&", "#", "x", "5", "B", ";">>),
    <<"_">>, <<"&", "#", "x", "5", "F", ";">>)

\* The escapes with "&" escaped as well, as a general HTML escape would.
EscapeMarkdownAndAmpersand(s) ==
  replaceAll(EscapeMarkdownWithoutBrace(replaceAll(s, <<"&">>, <<"&", "a", "m", "p", ";">>)),
    <<"{">>, <<"&", "#", "x", "7", "B", ";">>)

\* replaceAll("[", "&#x5B;").replaceAll("_", "&#x5F;").replaceAll("{", "&#x7B;")
EscapeMarkdown(s) ==
  replaceAll(
    replaceAll(
      replaceAll(s, <<"[">>, <<"&", "#", "x", "5", "B", ";">>),
      <<"_">>, <<"&", "#", "x", "5", "F", ";">>),
    <<"{">>, <<"&", "#", "x", "7", "B", ";">>)

TJSOpen == <<"<", "p", ">", "@", "T", "J", "S", "-", "t", "y", "p", "e", " ">>
PClose == <<"<", "/", "p", ">">>

\* The first index at or after i that holds "<", or Len(s) + 1.
NextLt(s, i) ==
  Least({j \in i..(Len(s) + 1) : j > Len(s) \/ s[j] = "<"})

\* /<p>@TJS-type [^<]<\/p>/, without the +, matches s at i.
IsTJSAtOneCharacter(s, i) ==
  /\ IsAt(s, i, TJSOpen)
  /\ NextLt(s, i + Len(TJSOpen)) = i + Len(TJSOpen) + 1
  /\ IsAt(s, NextLt(s, i + Len(TJSOpen)), PClose)

\* /<p>@TJS-type [^<]+<\/p>/ matches s at i.
IsTJSAt(s, i) ==
  /\ IsAt(s, i, TJSOpen)
  /\ NextLt(s, i + Len(TJSOpen)) > i + Len(TJSOpen)
  /\ IsAt(s, NextLt(s, i + Len(TJSOpen)), PClose)

RECURSIVE TJSFrom(_, _)
TJSFrom(s, i) ==
  LET M == {j \in i..Len(s) : IsTJSAt(s, j)}
  IN IF M = {} THEN From(s, i)
     ELSE LET j == Least(M) IN
            SubSeq(s, i, j - 1)
              \o TJSFrom(s, NextLt(s, j + Len(TJSOpen)) + Len(PClose))

\* Remove @TJS-type tags: replaceAll(/<p>@TJS-type [^<]+<\/p>/g, "")
RemoveTJS(s) == TJSFrom(s, 1)

\* renderJsxElements: the host serialises the elements one after the other.
renderJsxElements(elements) == Concat(elements)

\* Lines 156-174: the rewrites, each on the result of the one before.
Sanitize(s) ==
  RemoveTJS(EscapeMarkdown(CollapseNewlines(EncodeNbsp(ReduceIndent(
    ConvertHeadings(s))))))

\* The returned template: ###, the name in backquotes, an empty line,
\* the content, a line feed.
Template(nm, c) ==
  <<"#", "#", "#", " ", BQ>> \o nm \o <<BQ, LF, LF>> \o c \o <<LF>>

renderReflection(nm, rendered0) == Template(nm, Sanitize(rendered0))

(***************************************************************************)
(* renderPageEvents.  An event's model has its name, whether it is a       *)
(* DeclarationReflection, its @category tag with the texts of the tag's    *)
(* content parts, and the elements the host renders for it.  The Map is a  *)
(* sequence of entries in the order of their insertion.                    *)
(***************************************************************************)

\* isDeclarationReflectionEvent(event), lines 115-117.
isDeclarationReflectionEvent(event) == event.model.declaration

\* getReflectionCategory(reflection), lines 123-126.
getReflectionCategory(reflection) ==
  IF reflection.categoryTag.present
  THEN Join(reflection.categoryTag.content, <<" ">>)
  ELSE <<>>

CommonTypes == <<"C", "o", "m", "m", "o", "n", " ", "T", "y", "p", "e", "s">>

\* renderCategory(category), lines 132-136.
renderCategory(category) ==
  LET heading == IF category = <<>> THEN CommonTypes ELSE category
  IN <<"#", "#", " ">>
       \o (IF StartsLowerCase(heading) THEN <<BQ>> \o heading \o <<BQ>>
           ELSE heading)
       \o <<LF>>

\* Map.prototype.has
MapHas(map, key) == \E i \in 1..Len(map) : map[i].key = key

\* Map.prototype.set, of a key the map may have.
MapSet(map, key, value) ==
  IF MapHas(map, key)
  THEN [i \in 1..Len(map) |->
          IF map[i].key = key THEN [key |-> key, value |-> value] ELSE map[i]]
  ELSE Append(map, [key |-> key, value |-> value])

\* Map.prototype.get, of a key the map has.
MapGet(map, key) == map[CHOOSE i \in 1..Len(map) : map[i].key = key].value

\* Map.prototype.keys
MapKeys(map) == [i \in 1..Len(map) |-> map[i].key]

\* outputsByCategory.get(category)?.push(rendered)
MapPush(map, key, element) ==
  [i \in 1..Len(map) |->
     IF map[i].key = key
     THEN [key |-> key, value |-> Append(map[i].value, element)]
     ELSE map[i]]

\* The declaration events left in the order they come in.
KeepEventOrder(evs) == evs

\* Lines 90-92: the declaration events sorted by the names of their models.
SortEvents(evs) ==
  LET After(a, b) == localeCompare(a.model.name, b.model.name) > 0
  IN Sort(evs, After)

RECURSIVE GroupFrom(_, _, _)
\* Lines 97-105: the loop over the declaration events, from the i-th on.
GroupFrom(evs, i, map) ==
  IF i > Len(evs) THEN map
  ELSE LET category == getReflectionCategory(evs[i].model)
           fragment0 == renderReflection(evs[i].model.name,
                          renderJsxElements(evs[i].model.rendering))
           map1 == IF ~MapHas(map, category)
                   THEN MapSet(map, category, <<renderCategory(category)>>)
                   ELSE map
       IN GroupFrom(evs, i + 1, MapPush(map1, category, fragment0))

\* The keys sorted with localeCompare.
SortCategoriesLocale(keys) ==
  LET After(a, b) == localeCompare(a, b) > 0
  IN Sort(keys, After)

\* [...outputsByCategory.keys()].sort(), lines 107-108.
SortCategories(keys) ==
  LET After(a, b) == CodeUnitLess(b, a)
  IN Sort(keys, After)

\* flatMap((category) => outputsByCategory.get(category))
FlatMap(keys, map) == Concat([i \in 1..Len(keys) |-> MapGet(map, keys[i])])

\* renderPageEvents(events, theme), lines 89-109.
renderPageEvents(evs) ==
  LET map == GroupFrom(SortEvents(SelectSeq(evs, isDeclarationReflectionEvent)),
                       1, <<>>)
  IN Join(FlatMap(SortCategories(MapKeys(map)), map), <<LF>>)

(***************************************************************************)
(* load and the "schema-reference" output.  process.stdout takes the       *)
(* chunks in the order of the writes and flushes them in that order; the   *)
(* callback of a write runs once its chunk is flushed.                     *)
(***************************************************************************)

\* buildPageEvents(project, router), lines 69-82; pages is what
\* router.buildPages(project) yields.
buildPageEvents(pages) == [i \in 1..Len(pages) |-> [model |-> pages[i].model]]

\* Lines 14-17: what is written ahead of the rendered page.
FrontMatterOpen == <<"-", "-", "-", LF>>
FrontMatterTitle ==
  <<"t", "i", "t", "l", "e", ":", " ", "S", "c", "h", "e", "m", "a", " ",
    "R", "e", "f", "e", "r", "e", "n", "c", "e", LF>>
FrontMatterClose == <<"-", "-", "-", LF, LF>>
AnchorTarget ==
  <<"<", "d", "i", "v", " ", "i", "d", "=", "\"", "s", "c", "h", "e", "m",
    "a", "-", "r", "e", "f", "e", "r", "e", "n", "c", "e", "\"", " ", "/",
    ">", LF, LF>>

\* process.stdout.write(chunk, callback)
Write(chunk, callback) ==
  queue' = Append(queue, [chunk |-> chunk, callback |-> callback])

\* load(app), lines 5-25.
Load ==
  /\ hpc = "unloaded"
  /\ app' = [app EXCEPT !.outputs = @ \cup {"schema-reference"},
                        !.defaultOutput = "schema-reference"]
  /\ hpc' = "loaded"
  /\ UNCHANGED <<project, queue, out, resolved, renderVars, treeVars, pageVars>>

\* Lines 7-12: the host runs the default output.
Begin ==
  /\ hpc = "loaded"
  /\ app.defaultOutput \in app.outputs
  /\ app' = [app EXCEPT !.router = "SchemaReferenceRouter",
                        !.theme = "DefaultTheme", !.begun = TRUE]
  /\ events' = buildPageEvents(project)
  /\ rendered' = renderPageEvents(events')
  /\ hpc' = "front matter"
  /\ UNCHANGED <<project, queue, out, resolved, renderVars, treeVars, ppc,
                 declarationEvents, outputsByCategory, sections>>

\* Line 14.
WriteFrontMatterOpen ==
  /\ hpc = "front matter"
  /\ Write(FrontMatterOpen, FALSE)
  /\ hpc' = "title"
  /\ UNCHANGED <<app, project, out, resolved, renderVars, treeVars, pageVars>>

\* Line 15.
WriteTitle ==
  /\ hpc = "title"
  /\ Write(FrontMatterTitle, FALSE)
  /\ hpc' = "front matter end"
  /\ UNCHANGED <<app, project, out, resolved, renderVars, treeVars, pageVars>>

\* Line 16.
WriteFrontMatterClose ==
  /\ hpc = "front matter end"
  /\ Write(FrontMatterClose, FALSE)
  /\ hpc' = "anchor"
  /\ UNCHANGED <<app, project, out, resolved, renderVars, treeVars, pageVars>>

\* Line 17.
WriteAnchorTarget ==
  /\ hpc = "anchor"
  /\ Write(AnchorTarget, FALSE)
  /\ hpc' = "body"
  /\ UNCHANGED <<app, project, out, resolved, renderVars, treeVars, pageVars>>

\* Line 18.
WriteRendered ==
  /\ hpc = "body"
  /\ Write(rendered, FALSE)
  /\ hpc' = "flush"
  /\ UNCHANGED <<app, project, out, resolved, renderVars, treeVars, pageVars>>

\* Line 21: the empty write whose callback resolves the promise; the
\* handler awaits the promise.
WriteEmpty ==
  /\ hpc = "flush"
  /\ Write(<<>>, TRUE)
  /\ hpc' = "await"
  /\ UNCHANGED <<app, project, out, resolved, renderVars, treeVars, pageVars>>

\* process.stdout flushes its oldest chunk and runs the chunk's callback.
Flush ==
  /\ queue # <<>>
  /\ out' = Append(out, Head(queue).chunk)
  /\ queue' = Tail(queue)
  /\ resolved' = (resolved \/ Head(queue).callback)
  /\ UNCHANGED <<app, project, hpc, renderVars, treeVars, pageVars>>

\* The handler returns without awaiting the promise.
ResumeAtOnce ==
  /\ hpc = "await"
  /\ hpc' = "done"
  /\ UNCHANGED <<app, project, queue, out, resolved, renderVars, treeVars,
                 pageVars>>

\* Line 21: the promise is resolved, the handler returns.
Resume ==
  /\ hpc = "await"
  /\ resolved
  /\ hpc' = "done"
  /\ UNCHANGED <<app, project, queue, out, resolved, renderVars, treeVars,
                 pageVars>>

(***************************************************************************)
(* The markup the host renders: serialised elements.  A "<" only ever      *)
(* opens a tag (the serialiser escapes it in text), and paragraphs do not  *)
(* nest.                                                                   *)
(***************************************************************************)

MaxPieces == 4

TJSPiece == TJSOpen
POpenPiece == <<"<", "p", ">">>
\* Text: the characters the rewrites escape, and an indented line's end.
TextPieces == {<<"[", "_", "{">>, <<NBSP, NBSP, LF>>}
TagPieces ==
  {<<"<", "h", "1", ">">>, <<"<", "/", "h", "6", ">">>, POpenPiece, TJSPiece,
   PClose}
Pieces == TextPieces \cup TagPieces

\* No paragraph opens inside a paragraph, none closes outside one.
RECURSIVE ParagraphsNest(_, _, _)
ParagraphsNest(ps, i, open) ==
  IF i > Len(ps) THEN TRUE
  ELSE IF ps[i] \in {POpenPiece, TJSPiece}
       THEN ~open /\ ParagraphsNest(ps, i + 1, TRUE)
       ELSE IF ps[i] = PClose THEN open /\ ParagraphsNest(ps, i + 1, FALSE)
       ELSE ParagraphsNest(ps, i + 1, open)

Renderings ==
  {ps \in UNION {[1..n -> Pieces] : n \in 0..MaxPieces} :
     ParagraphsNest(ps, 1, FALSE)}

Names == {<<"F", "o", "o">>, <<"A", "_", "B">>}

NoSecond == [indent |-> <<>>, nbsp |-> <<>>, newlines |-> <<>>,
             escaped |-> <<>>, result |-> <<>>]
NoCall == [op |-> "none", target |-> 0, url |-> <<>>, result |-> <<>>]
NoTree == [n |-> 0, parent |-> <<>>, via |-> <<>>, typeKind |-> <<>>,
           comment |-> <<>>, kind |-> <<>>]

NoApp == [outputs |-> {}, defaultOutput |-> "html", router |-> "default",
          theme |-> "none", begun |-> FALSE]

\* The output handler does not run.
OutputIdle ==
  /\ app = NoApp
  /\ project = <<>>
  /\ hpc = "idle"
  /\ queue = <<>>
  /\ out = <<>>
  /\ resolved = FALSE

\* No page is rendered.
PagesIdle ==
  /\ events = <<>>
  /\ ppc = "idle"
  /\ declarationEvents = <<>>
  /\ outputsByCategory = <<>>
  /\ sections = <<>>
  /\ rendered = <<>>

\* No reflection is looked at.
TreeIdle == tree = NoTree /\ call = NoCall

\* Nothing is rendered.
RenderIdle ==
  /\ name = <<>>
  /\ pieces = <<>>
  /\ rpc = "idle"
  /\ content = <<>>
  /\ fragment = <<>>
  /\ second = NoSecond

InitRender ==
  /\ OutputIdle
  /\ TreeIdle
  /\ PagesIdle
  /\ name \in Names
  /\ pieces \in Renderings
  /\ rpc = "start"
  /\ content = <<>>
  /\ fragment = <<>>
  /\ second = NoSecond

\* renderReflection(reflection, context), lines 143-177.
RenderReflection ==
  /\ rpc = "start"
  /\ content' = Sanitize(renderJsxElements(pieces))
  /\ fragment' = Template(name, content')
  /\ rpc' = "done"
  /\ UNCHANGED <<name, pieces, second, treeVars, pageVars, outputVars>>

\* The rewrites of lines 156-174 applied to their own result.
SanitizeAgain ==
  /\ rpc = "done"
  /\ \E a \in {ReduceIndent(ConvertHeadings(content))} :
     \E b \in {EncodeNbsp(a)} :
     \E c \in {CollapseNewlines(b)} :
     \E d \in {EscapeMarkdown(c)} :
       second' = [indent |-> a, nbsp |-> b, newlines |-> c, escaped |-> d,
                  result |-> RemoveTJS(d)]
  /\ rpc' = "again"
  /\ UNCHANGED <<name, pieces, content, fragment, treeVars, pageVars, outputVars>>

NextRender == RenderReflection \/ SanitizeAgain

SpecRender == InitRender /\ [][NextRender]_vars

(***************************************************************************)
(* The reflections the host builds, and the calls on them.                 *)
(***************************************************************************)

MaxNodes == 4
MaxUrlPieces == 3

\* Every node hangs below an earlier one.
Parents(n) == {p \in [2..n -> 1..n] : \A m \in 2..n : p[m] < m}

\* The nodes with children below their type's declaration.
Typed(n, p, v) == {k \in 1..n : \E m \in 2..n : p[m] = k /\ v[m] = "type"}

\* The members of an interface.
Declared(n, v) == {m \in 2..n : v[m] = "children"}

\* A tree of n nodes.  A node with nothing below its type has an intrinsic
\* type; the members of an inline type are properties.
TreeOf(n, p, v, c, refs, methods, rk) ==
  [n |-> n, parent |-> p, via |-> v, comment |-> c,
   typeKind |-> [k \in 1..n |->
     IF k \notin Typed(n, p, v) THEN "intrinsic"
     ELSE IF k \in refs THEN "reference" ELSE "reflection"],
   kind |-> [k \in 1..n |->
     IF k = 1 THEN rk
     ELSE IF k \in methods THEN "Method" ELSE "Property"]]

\* tree is one of the trees of up to max nodes.
PickTree(max, rootKinds) ==
  \E n \in 1..max :
    \E p \in Parents(n) :
      \E v \in [2..n -> {"children", "type"}] :
        \E c \in [1..n -> BOOLEAN], refs \in SUBSET Typed(n, p, v),
           methods \in SUBSET Declared(n, v), rk \in rootKinds :
          tree = TreeOf(n, p, v, c, refs, methods, rk)

InitTree ==
  /\ OutputIdle
  /\ RenderIdle
  /\ PagesIdle
  /\ PickTree(MaxNodes, {"Interface"})
  /\ call = NoCall

\* hasComment(member) is called, by filter, by some or by getAnchor.
CallHasComment ==
  /\ call.op = "none"
  /\ \E n \in NodesOf(tree) :
       call' = [op |-> "hasComment", target |-> n, url |-> <<>>,
                result |-> hasComment(tree, n)]
  /\ UNCHANGED <<tree, renderVars, pageVars, outputVars>>

\* renderReflection(reflection, context) picks the members of the page's
\* declaration, the root, and hands each to context.member.
RenderMembers ==
  /\ call.op = "none"
  /\ call' = [op |-> "members", target |-> 1, url |-> <<>>,
              result |-> Members(tree, 1)]
  /\ UNCHANGED <<tree, renderVars, pageVars, outputVars>>

NextTree == CallHasComment \/ RenderMembers

SpecTree == InitTree /\ [][NextTree]_vars

\* What the host's router yields as a reflection's URL.
UrlPieces ==
  {<<"A", "b">>, DotHtml, <<"/">>, <<"#">>, <<".">>}

Urls == {Concat(ps) : ps \in UNION {[1..k -> UrlPieces] : k \in 0..MaxUrlPieces}}

InitAnchor ==
  /\ OutputIdle
  /\ RenderIdle
  /\ PagesIdle
  /\ PickTree(2, {"Interface", "Project", "Property"})
  /\ call = NoCall

\* router.getAnchor(target)
GetAnchor ==
  /\ call.op = "none"
  /\ \E n \in NodesOf(tree), url \in Urls :
       call' = [op |-> "getAnchor", target |-> n, url |-> url,
                result |-> getAnchor(tree, n, url)]
  /\ UNCHANGED <<tree, renderVars, pageVars, outputVars>>

\* router.getFullUrl(target)
GetFullUrl ==
  /\ call.op = "none"
  /\ \E n \in NodesOf(tree), url \in Urls :
       call' = [op |-> "getFullUrl", target |-> n, url |-> url,
                result |-> getFullUrl(tree, n, url)]
  /\ UNCHANGED <<tree, renderVars, pageVars, outputVars>>

NextAnchor == GetAnchor \/ GetFullUrl

SpecAnchor == InitAnchor /\ [][NextAnchor]_vars

(***************************************************************************)
(* The pages the host plans, and renderPageEvents on their events.         *)
(***************************************************************************)

MaxEvents == 3

NoTag == [present |-> FALSE, content |-> <<>>]
Tools == <<"T", "o", "o", "l", "s">>
Prompts == <<"p", "r", "o", "m", "p", "t", "s">>
CategoryTags ==
  {NoTag, [present |-> TRUE, content |-> <<Tools>>],
   [present |-> TRUE, content |-> <<Prompts>>]}

DeclarationNames == {<<"b">>, <<"B">>, <<"a", "B">>}

\* What the host renders for a declaration: a summary paragraph.
Summary == <<POpenPiece, <<"[", "_", "{">>, PClose>>

\* The models of the pages: declarations, and the project itself.
Models ==
  {[declaration |-> TRUE, name |-> nm, categoryTag |-> tag, rendering |-> Summary] :
     nm \in DeclarationNames, tag \in CategoryTags}
  \cup {[declaration |-> FALSE, name |-> <<"m">>, categoryTag |-> NoTag,
         rendering |-> <<>>]}

PageEvents == {[model |-> m] : m \in Models}

InitPages ==
  /\ OutputIdle
  /\ RenderIdle
  /\ TreeIdle
  /\ events \in UNION {[1..n -> PageEvents] : n \in 0..MaxEvents}
  /\ ppc = "start"
  /\ declarationEvents = <<>>
  /\ outputsByCategory = <<>>
  /\ sections = <<>>
  /\ rendered = <<>>

\* renderPageEvents(events, theme), lines 89-109.
RenderPageEvents ==
  /\ ppc = "start"
  /\ \E sorted \in {SortEvents(SelectSeq(events, isDeclarationReflectionEvent))} :
     \E map \in {GroupFrom(sorted, 1, <<>>)} :
     \E flat \in {FlatMap(SortCategories(MapKeys(map)), map)} :
       /\ declarationEvents' = sorted
       /\ outputsByCategory' = map
       /\ sections' = flat
       /\ rendered' = Join(flat, <<LF>>)
  /\ ppc' = "done"
  /\ UNCHANGED <<events, renderVars, treeVars, outputVars>>

NextPages == RenderPageEvents

SpecPages == InitPages /\ [][NextPages]_vars

\* What router.buildPages(project) yields: a page for each model.
Pages == {[model |-> m] : m \in Models}

InitOutput ==
  /\ RenderIdle
  /\ TreeIdle
  /\ PagesIdle
  /\ app = NoApp
  /\ project \in UNION {[1..n -> Pages] : n \in 0..MaxEvents}
  /\ hpc = "unloaded"
  /\ queue = <<>>
  /\ out = <<>>
  /\ resolved = FALSE

NextOutput ==
  \/ Load
  \/ Begin
  \/ WriteFrontMatterOpen
  \/ WriteTitle
  \/ WriteFrontMatterClose
  \/ WriteAnchorTarget
  \/ WriteRendered
  \/ WriteEmpty
  \/ Flush
  \/ Resume

SpecOutput == InitOutput /\ [][NextOutput]_vars

(***************************************************************************)
(* Properties of hasComment, getAnchor and the members of a declaration.   *)
(***************************************************************************)

RECURSIVE InlineBelow(_, _, _)
\* d is below s, every step of the way a member of the inline structural
\* type (a ReflectionType) of the node above.
InlineBelow(t, d, s) ==
  /\ d # 1
  /\ t.via[d] = "type"
  /\ t.typeKind[t.parent[d]] = "reflection"
  /\ \/ t.parent[d] = s
     \/ InlineBelow(t, t.parent[d], s)

\* s has a direct comment, or a node inline below it has one.
Documented(t, s) ==
  \/ t.comment[s]
  \/ \E d \in NodesOf(t) : InlineBelow(t, d, s) /\ t.comment[d]

\* C2: hasComment(S) is true exactly when S has a direct comment or a node
\* below it, reached through inline structural types only, has one; a
\* comment reached only through another kind of type does not count.
C2_HasComment ==
  call.op = "hasComment" => call.result = Documented(tree, call.target)

\* A container without a comment whose only commented node is a leaf three
\* inline levels down.
C2_Witness ==
  /\ call.op = "hasComment"
  /\ call.target = 1
  /\ tree.n = 4
  /\ \A m \in 2..4 :
       tree.parent[m] = m - 1 /\ tree.via[m] = "type"
         /\ tree.typeKind[m - 1] = "reflection"
  /\ \A m \in 1..4 : tree.comment[m] <=> m = 4
  /\ call.result = TRUE

\* C8: the members renderReflection renders below a declaration are its
\* direct children for which hasComment holds, each once and in their
\* original order; a child for which it does not hold is not rendered and,
\* when a Property, has the empty anchor whatever its URL.
C8_Members ==
  call.op = "members" =>
    LET r == call.result
        ch == {m \in NodesOf(tree) \ {1} :
                 tree.parent[m] = 1 /\ tree.via[m] = "children"}
    IN /\ \A i \in 1..Len(r) : r[i] \in ch /\ Documented(tree, r[i])
       /\ \A i \in 1..(Len(r) - 1) : r[i] < r[i + 1]
       /\ \A m \in ch :
            IF Documented(tree, m)
            THEN \E i \in 1..Len(r) : r[i] = m
            ELSE /\ \A i \in 1..Len(r) : r[i] # m
                 /\ tree.kind[m] = "Property" =>
                      \A url \in Urls : getAnchor(tree, m, url) = <<>>

\* A declaration with a member rendered for a comment further down, and an
\* undocumented property left out.
C8_Witness ==
  /\ call.op = "members"
  /\ Len(call.result) = 1
  /\ ~tree.comment[call.result[1]]
  /\ \E m \in NodesOf(tree) \ {1} :
       /\ tree.parent[m] = 1
       /\ tree.via[m] = "children"
       /\ tree.kind[m] = "Property"
       /\ m < call.result[1]
       /\ ~Documented(tree, m)

\* C3: getAnchor returns the empty string for a Property for which
\* hasComment is false; for every other reflection it returns a string
\* without upper-case letters and without ".", "/" and "#", whatever the
\* URL of the host's router.
C3_Anchor ==
  call.op = "getAnchor" =>
    IF tree.kind[call.target] = "Property" /\ ~Documented(tree, call.target)
    THEN call.result = <<>>
    ELSE \A i \in 1..Len(call.result) :
           call.result[i] \notin {".", "/", "#", "A", "B"}

C3_Witness ==
  /\ call.op = "getAnchor"
  /\ tree.kind[call.target] = "Property"
  /\ ~tree.comment[call.target]
  /\ Documented(tree, call.target)
  /\ call.url = <<"A", "b", ".", "h", "t", "m", "l", "#">>
  /\ call.result = <<"a", "b", "-">>

(***************************************************************************)
(* Properties of renderPageEvents.                                         *)
(***************************************************************************)

\* The events of declarations, by their places in events.
Declarations == {i \in 1..Len(events) : events[i].model.declaration}

\* The category label of the i-th event: the text of its tag, or the empty
\* label without one.
LabelOf(i) ==
  IF events[i].model.categoryTag.present
  THEN events[i].model.categoryTag.content[1]
  ELSE <<>>

Labels == {LabelOf(i) : i \in Declarations}

\* An element of the output is a category heading, not a fragment.
IsCategoryHeading(s) == s[1] = "#" /\ s[2] = "#" /\ s[3] = " "

\* The category headings of the output, in their order.
Headings == SelectSeq(sections, IsCategoryHeading)

HeadingCommonTypes == <<"#", "#", " ">> \o CommonTypes \o <<LF>>
HeadingTools == <<"#", "#", " ">> \o Tools \o <<LF>>
HeadingPrompts == <<"#", "#", " ", BQ>> \o Prompts \o <<BQ, LF>>

\* C1 as stated: for the labels "Tools", "" and "prompts" the headings come
\* in the order "Common Types", "prompts" in backquotes, "Tools".
C1_LexicalOrder ==
  (ppc = "done" /\ Labels = {Tools, <<>>, Prompts}) =>
    Headings = <<HeadingCommonTypes, HeadingPrompts, HeadingTools>>

\* The label a category heading was made from.
LabelOfHeading(h) == CHOOSE l \in Labels : renderCategory(l) = h

\* C1 amended: the buckets come in the ascending order of the UTF-16 code
\* units of their labels, the empty label first and every upper-case letter
\* before every lower-case one; for the labels "Tools", "" and "prompts"
\* the headings come in the order "Common Types", "Tools", "prompts" in
\* backquotes.
C1_CodeUnitOrder ==
  ppc = "done" =>
    /\ Len(Headings) = Cardinality(Labels)
    /\ \A i \in 1..Len(Headings) : \E l \in Labels : renderCategory(l) = Headings[i]
    /\ \A i \in 1..(Len(Headings) - 1) :
         CodeUnitLess(LabelOfHeading(Headings[i]), LabelOfHeading(Headings[i + 1]))
    /\ Labels = {Tools, <<>>, Prompts} =>
         Headings = <<HeadingCommonTypes, HeadingTools, HeadingPrompts>>

C1_Witness ==
  /\ ppc = "done"
  /\ Labels = {Tools, <<>>, Prompts}
  /\ LabelOf(1) = Tools
  /\ LabelOf(2) = <<>>
  /\ LabelOf(3) = Prompts
  /\ Len(Headings) = 3

\* The name in the heading line of a fragment: what stands between the
\* backquotes.
NameOfFragment(f) ==
  SubSeq(f, 6, (CHOOSE i \in 6..Len(f) : f[i] = BQ /\ \A j \in 6..(i - 1) : f[j] # BQ) - 1)

\* The fragment of the i-th event.
FragmentOf(i) ==
  renderReflection(events[i].model.name, renderJsxElements(events[i].model.rendering))

\* C6: there is one bucket for each category label among the declaration
\* events, the declarations without a tag in the bucket of the empty label,
\* headed "Common Types"; a bucket is its category heading and then one
\* fragment for each declaration of the category, in the order of their
\* names by localeCompare; every declaration event is rendered once, and no
\* other event is rendered.
C6_Buckets ==
  ppc = "done" =>
    /\ Len(outputsByCategory) = Cardinality(Labels)
    /\ {outputsByCategory[b].key : b \in 1..Len(outputsByCategory)} = Labels
    /\ \A b \in 1..Len(outputsByCategory) :
         LET key == outputsByCategory[b].key
             bucket == outputsByCategory[b].value
             In == {i \in Declarations : LabelOf(i) = key}
         IN /\ bucket[1] = renderCategory(key)
            /\ key = <<>> => bucket[1] = HeadingCommonTypes
            /\ Len(bucket) = 1 + Cardinality(In)
            /\ \A i \in In :
                 Cardinality({j \in 2..Len(bucket) : bucket[j] = FragmentOf(i)})
                   = Cardinality({k \in In : FragmentOf(k) = FragmentOf(i)})
            /\ \A j \in 2..(Len(bucket) - 1) :
                 localeCompare(NameOfFragment(bucket[j]),
                               NameOfFragment(bucket[j + 1])) <= 0
    /\ Len(sections) = Cardinality(Labels) + Cardinality(Declarations)
    /\ Len(declarationEvents) = Cardinality(Declarations)

\* Two declarations of one category given against the order of their names,
\* one without a tag, and an event that is no declaration.
C6_Witness ==
  /\ ppc = "done"
  /\ Len(events) = 3
  /\ Cardinality(Declarations) = 2
  /\ Len(outputsByCategory) = 1
  /\ outputsByCategory[1].key = <<>>
  /\ \E i, j \in Declarations :
       /\ i < j
       /\ events[i].model.name = <<"B">>
       /\ events[j].model.name = <<"b">>

(***************************************************************************)
(* Properties of the output handler.                                       *)
(***************************************************************************)

\* The chunks written so far, flushed or not, in the order of the writes.
Written == out \o [i \in 1..Len(queue) |-> queue[i].chunk]

\* Where the handler stands, by the number of writes it has made.
Progress ==
  <<"front matter", "title", "front matter end", "anchor", "body", "flush",
    "await">>

\* C7: the handler writes the three lines of the front matter, the anchor
\* target and then the whole rendered page, in this order and with nothing
\* in between; stdout flushes them in this order; the handler completes
\* only after the callback of the last, empty write has run, when all of it
\* is flushed.
C7_WriteOrder ==
  LET all == <<FrontMatterOpen, FrontMatterTitle, FrontMatterClose,
               AnchorTarget, rendered, <<>>>>
  IN /\ \A k \in 1..Len(Progress) :
          hpc = Progress[k] => Written = SubSeq(all, 1, k - 1)
     /\ hpc \in {"unloaded", "loaded"} => Written = <<>>
     /\ resolved => out = all
     /\ hpc = "done" => resolved /\ queue = <<>> /\ out = all

C7_Witness ==
  /\ hpc = "done"
  /\ Len(project) = MaxEvents
  /\ Len(rendered) > 0
  /\ Concat(out) = FrontMatterOpen \o FrontMatterTitle \o FrontMatterClose
                     \o AnchorTarget \o renderPageEvents(buildPageEvents(project))

(***************************************************************************)
(* Properties of renderReflection's rewrites.                              *)
(***************************************************************************)

\* The markup handed to the rewrites.
Markup == renderJsxElements(pieces)

\* The part of the returned fragment after the heading line and the empty
\* line that follows it.
Body == SubSeq(fragment, Len(name) + 9, Len(fragment))

\* The paragraphs of the rendering that hold the @TJS-type tag and a tag
\* text that is not empty and has no "<": the places where they open.
TaggedParagraphs ==
  {i \in 1..Len(pieces) :
     /\ pieces[i] = TJSPiece
     /\ \E j \in (i + 2)..Len(pieces) :
          /\ pieces[j] = PClose
          /\ \A m \in (i + 1)..(j - 1) : pieces[m] \in TextPieces}

\* s holds a literal <h1 .. <h6 or </h1> .. </h6>.
HasHeadingTag(s) ==
  \E i \in 1..Len(s) :
    /\ s[i] = "<"
    /\ \/ /\ i + 2 <= Len(s)
          /\ s[i + 1] = "h"
          /\ s[i + 2] \in {"1", "2", "3", "4", "5", "6"}
       \/ /\ i + 4 <= Len(s)
          /\ s[i + 1] = "/"
          /\ s[i + 2] = "h"
          /\ s[i + 3] \in {"1", "2", "3", "4", "5", "6"}
          /\ s[i + 4] = ">"

\* The closing heading tags of s, of any level.
CountHeadingClose(s) ==
  Cardinality({i \in 1..Len(s) :
    \E l \in {"1", "2", "3", "4", "5", "6"} : IsAt(s, i, <<"<", "/", "h", l, ">">>)})

Specials == {"[", "_", "{"}

\* C9 as stated: no character of the returned fragment is a literal "[", "_"
\* or "{", whatever the declaration's name.
C9_FragmentEscaped ==
  rpc # "start" => \A i \in 1..Len(fragment) : fragment[i] \notin Specials

\* C9 amended: after the heading line, which carries the name as it is, no
\* character of the returned fragment is a literal "[", "_" or "{"; without
\* a removed paragraph each of them is there as its numeric entity.
C9_BodyEscaped ==
  rpc # "start" =>
    /\ \A i \in 1..Len(Body) : Body[i] \notin Specials
    /\ (\A i \in 1..Len(pieces) : pieces[i] # TJSPiece) =>
         /\ Count(Body, <<"&", "#", "x", "5", "B", ";">>) = Count(Markup, <<"[">>)
         /\ Count(Body, <<"&", "#", "x", "5", "F", ";">>) = Count(Markup, <<"_">>)
         /\ Count(Body, <<"&", "#", "x", "7", "B", ";">>) = Count(Markup, <<"{">>)

C9_Witness ==
  /\ rpc = "done"
  /\ Includes(name, <<"_">>)
  /\ Includes(Markup, <<"[", "_", "{">>)
  /\ Includes(Body, <<"&", "#", "x", "7", "B", ";">>)

\* A paragraph of the @TJS-type tag opens in s at i: its text has no "<" and
\* at least minText characters.
IsTagParagraph(s, i, minText) ==
  /\ IsAt(s, i, TJSOpen)
  /\ \E j \in (i + Len(TJSOpen) + minText)..Len(s) :
       /\ IsAt(s, j, PClose)
       /\ \A m \in (i + Len(TJSOpen))..(j - 1) : s[m] # "<"

C4_EscapesStable ==
  rpc = "again" =>
    /\ second.nbsp = second.indent
    /\ second.escaped = second.newlines
    /\ Count(second.result, <<"&">>) = Count(content, <<"&">>)

C4_Witness ==
  /\ rpc = "again"
  /\ Includes(content, NbspEntity)
  /\ Includes(content, <<"&", "#", "x", "5", "F", ";">>)
  /\ second.result = content
====
